---- MODULE Spec2Model ----
(***************************************************************************)
(* Model of pkg/git/repository.go: the RepoEntity record, its loader       *)
(* InitializeRepository, the composite operations Pull, Fetch and Merge,   *)
(* and Refresh.  The on-disk repository is the environment; the helpers    *)
(* of the package that live in other files (loadLocalBranches,             *)
(* loadCommits, loadRemotes, getActiveBranch, switchRemoteBranch,          *)
(* FetchWithGit, MergeWithGit, Checkout) are modelled from the design      *)
(* document.                                                               *)
(***************************************************************************)
EXTENDS Integers, Sequences, FiniteSets, TLC

VARIABLES
    disk,     \* the repository on disk (the VCS adapter's view of the path)
    entity,   \* the *RepoEntity the caller holds, Nil before/without a load
    gen,      \* allocation counter: every load step creates fresh objects
    pc,       \* "start", "ready", "noentity" or "crashed" (a Go panic)
    op,       \* name of the last call
    err,      \* error returned by the last call, as the set of its kinds
    trace,    \* the calls the last operation made, in order, each with its result
    pre,      \* the entity as it was when the last call started
    alt,      \* for Pull: result of FetchWithGit followed by Merge() instead
    again,    \* the last call was a Refresh right after a Refresh that returned nil
    jobs      \* the batch coordinator's started jobs: "started", "ok" or "failed"

vars == <<disk, entity, gen, pc, op, err, trace, pre, alt, again, jobs>>

-----------------------------------------------------------------------------
(* Bounds of the model *)

MaxCommits == 2
MaxGen == 2

-----------------------------------------------------------------------------
(* RepoState, repository.go:34-45 *)

Available == 0
Queued == 1
Working == 2
Success == 3
Fail == 4

(* a nil pointer *)
Nil == [nil |-> TRUE]

(* a nil error *)
NoErr == {}

Directory == "/repo"

-----------------------------------------------------------------------------
(* The repository on disk *)

BranchNames == {"main", "dev"}

LocalBranchLists == {<<"main">>, <<"main", "dev">>}

DiskRemote(name, tracking) == [Name |-> name, Branches |-> tracking, ahead |-> 0]

RemoteLists ==
    {<<>>}
    \cup {<<DiskRemote("origin", t)>> :
            t \in {<<>>, <<"origin/main">>, <<"origin/dev", "origin/main">>}}
    \cup {<<DiskRemote("origin", <<"origin/dev">>),
             DiskRemote("upstream", <<"upstream/main">>)>>}

RangeOf(s) == {s[i] : i \in 1..Len(s)}

(* A path that cannot be opened, cannot be stat'ed, or is no repository *)
BrokenDisks ==
    {[status |-> s, branches |-> <<>>, head |-> "main", commits |-> 0,
      remotes |-> <<>>, mtime |-> 0, conflict |-> FALSE] : s \in {"nodir", "nostat", "notrepo"}}

(* A repository without commits: HEAD names an unborn branch *)
EmptyDisks ==
    {[status |-> "repo", branches |-> <<>>, head |-> "main", commits |-> 0,
      remotes |-> r, mtime |-> 0, conflict |-> FALSE] : r \in RemoteLists}

(* A repository with commits: HEAD is on one of its local branches *)
CommitDisks ==
    {[status |-> "repo", branches |-> b, head |-> h, commits |-> c,
      remotes |-> r, mtime |-> 0, conflict |-> FALSE] :
        b \in LocalBranchLists, h \in BranchNames, c \in {1, MaxCommits},
        r \in RemoteLists}

Disks == BrokenDisks \cup EmptyDisks
         \cup {d \in CommitDisks : d.head \in RangeOf(d.branches)}

-----------------------------------------------------------------------------
(* The machine state the operations act on, and what a call gives back *)

Machine(e, d, g) == [entity |-> e, disk |-> d, gen |-> g, trace |-> <<>>]

Call(name, arg, e) == [call |-> name, arg |-> arg, err |-> e]

Done(m, name, arg, e) ==
    [m |-> [m EXCEPT !.trace = Append(@, Call(name, arg, e))], err |-> e]

Return(m, e) == [m |-> m, err |-> e, panic |-> FALSE]

Panicked(m) == [m |-> m, err |-> NoErr, panic |-> TRUE]

NameOf(p) == IF p = Nil THEN "" ELSE p.Name

-----------------------------------------------------------------------------
(* Helpers of the package that are not in repository.go *)

(* entity.Branches := one fresh Branch per local branch, in the adapter's order *)
loadLocalBranches(m) ==
    [m EXCEPT !.entity.Branches =
        [i \in 1..Len(m.disk.branches) |-> [Name |-> m.disk.branches[i], obj |-> m.gen]]]

(* entity.Commits := the commits reachable from HEAD, newest first *)
loadCommits(m) ==
    [m EXCEPT !.entity.Commits =
        [i \in 1..m.disk.commits |-> [Hash |-> m.disk.commits + 1 - i, obj |-> m.gen]]]

(* the remote-tracking branches of one remote *)
loadRemoteBranches(r, g) ==
    [i \in 1..Len(r.Branches) |-> [Name |-> r.Branches[i], obj |-> g]]

(* entity.Remotes := one fresh Remote per configured remote, none with a
   selected remote-tracking branch *)
loadRemotes(m) ==
    [m EXCEPT !.entity.Remotes =
        [i \in 1..Len(m.disk.remotes) |->
            [Name |-> m.disk.remotes[i].Name,
             Branches |-> loadRemoteBranches(m.disk.remotes[i], m.gen),
             Branch |-> Nil,
             obj |-> m.gen]]]

(* the local branch that HEAD is on, nil when there is none *)
getActiveBranch(m) ==
    LET bs == m.entity.Branches
        hit == {i \in 1..Len(bs) : bs[i].Name = m.disk.head}
    IN IF hit = {} THEN Nil
       ELSE bs[CHOOSE i \in hit : \A j \in hit : i <= j]

(* select the remote-tracking branch called name; a miss changes nothing *)
switchRemoteBranch(remote, name) ==
    LET bs == remote.Branches
        hit == {i \in 1..Len(bs) : bs[i].Name = name}
    IN IF hit = {}
       THEN [remote |-> remote, err |-> {"RemoteBranchNotFound"}]
       ELSE [remote |-> [remote EXCEPT !.Branch = bs[CHOOSE i \in hit : \A j \in hit : i <= j]],
             err |-> NoErr]

RemoteIndex(d, rm) == {i \in 1..Len(d.remotes) : d.remotes[i].Name = rm}

OwnerIndex(d, name) == {i \in 1..Len(d.remotes) : name \in RangeOf(d.remotes[i].Branches)}

(* adapter fetch of one remote: fo is "fail", "ok" (nothing new) or "new"
   (one more commit lands in the remote-tracking refs) *)
FetchWithGit(m, rm, fo) ==
    LET d == m.disk
        ix == RemoteIndex(d, rm)
        total == d.commits + (IF ix = {} THEN 0 ELSE d.remotes[CHOOSE i \in ix : TRUE].ahead)
    IN IF fo = "fail" THEN Done(m, "FetchWithGit", rm, {"FetchFailed"})
       ELSE IF fo = "new" /\ ix # {} /\ total < MaxCommits
       THEN LET i == CHOOSE j \in ix : TRUE
                ref == rm \o "/" \o d.head
                r == d.remotes[i]
                r2 == [r EXCEPT !.ahead = @ + 1,
                                !.Branches = IF ref \in RangeOf(@) THEN @ ELSE Append(@, ref)]
            IN Done([m EXCEPT !.disk.remotes[i] = r2, !.disk.mtime = @ + 1],
                    "FetchWithGit", rm, NoErr)
       ELSE Done(m, "FetchWithGit", rm, NoErr)

(* adapter merge of a remote-tracking branch into HEAD: mo is "ok", "fail"
   (nothing written) or "failTouched" (the working tree is left in conflict) *)
MergeWithGit(m, name, mo) ==
    LET d == m.disk
        ox == OwnerIndex(d, name)
    IN IF mo = "fail" \/ (mo = "failTouched" /\ d.conflict)
       THEN Done(m, "MergeWithGit", name, {"MergeFailed"})
       ELSE IF mo = "failTouched"
       THEN Done([m EXCEPT !.disk.mtime = @ + 1, !.disk.conflict = TRUE],
                 "MergeWithGit", name, {"MergeFailed"})
       ELSE IF ox # {} /\ d.remotes[CHOOSE i \in ox : TRUE].ahead > 0
       THEN LET i == CHOOSE j \in ox : TRUE
            IN Done([m EXCEPT !.disk.commits = @ + d.remotes[i].ahead,
                              !.disk.remotes[i].ahead = 0,
                              !.disk.mtime = @ + 1],
                    "MergeWithGit", name, NoErr)
       ELSE Done(m, "MergeWithGit", name, NoErr)

(* adapter checkout: moves HEAD to the branch; co is "ok" or "fail" *)
Checkout(m, branch, co) ==
    IF co = "ok" /\ branch # Nil /\ branch.Name \in RangeOf(m.disk.branches)
    THEN Done([m EXCEPT !.disk.head = branch.Name], "Checkout", NameOf(branch), NoErr)
    ELSE Done(m, "Checkout", NameOf(branch), {"CheckoutFailed"})

-----------------------------------------------------------------------------
(* repository.go *)

RefreshOutcomes == {"ok", "stat", "open", "branches", "commits", "remotes"}

RefreshError(rf) ==
    CASE rf = "stat" -> {"StatFailed"}
      [] rf = "open" -> {"OpenFailed"}
      [] rf = "branches" -> {"LoadBranchesFailed"}
      [] rf = "commits" -> {"LoadCommitsFailed"}
      [] rf = "remotes" -> {"LoadRemotesFailed"}
      [] OTHER -> NoErr

(* the entity literal of InitializeRepository *)
NewEntity(d, g) ==
    [RepoID |-> "id", Name |-> "repo", AbsPath |-> Directory,
     ModTime |-> d.mtime, Repository |-> [obj |-> g],
     Branch |-> Nil, Branches |-> <<>>,
     Remote |-> Nil, Remotes |-> <<>>,
     Commit |-> Nil, Commits |-> <<>>,
     State |-> Available]

Loaded(e, er) == [entity |-> e, err |-> er, panic |-> FALSE]

(* openDirectory not looking at the error of file.Stat *)
openDirectoryIgnoringStat(d) ==
    IF d.status = "nodir" THEN {"PathUnreadable"}
    ELSE IF d.status = "notrepo" THEN {"NotARepository"}
    ELSE NoErr

(* os.Open, file.Stat and git.PlainOpen of the directory *)
openDirectory(d) ==
    IF d.status \in {"nodir", "nostat"} THEN {"PathUnreadable"}
    ELSE IF d.status = "notrepo" THEN {"NotARepository"}
    ELSE NoErr

(* selectRemote returning a nil error when there is no remote *)
selectRemoteWithoutError(e) ==
    IF Len(e.Remotes) > 0
    THEN LET first == e.Remotes[1]
         IN  IF e.Branch = Nil
             THEN [entity |-> [e EXCEPT !.Remote = first], err |-> NoErr, panic |-> TRUE]
             ELSE LET sw == switchRemoteBranch(first, first.Name \o "/" \o e.Branch.Name)
                  IN  Loaded([e EXCEPT !.Remote = sw.remote, !.Remotes[1] = sw.remote], NoErr)
    ELSE Loaded(e, NoErr)

(* selectRemote selecting the tracking branch on a copy of the first remote *)
selectRemoteOnCopy(e) ==
    IF Len(e.Remotes) > 0
    THEN LET first == e.Remotes[1]
         IN  IF e.Branch = Nil
             THEN [entity |-> [e EXCEPT !.Remote = first], err |-> NoErr, panic |-> TRUE]
             ELSE LET sw == switchRemoteBranch(first, first.Name \o "/" \o e.Branch.Name)
                  IN  Loaded([e EXCEPT !.Remote = sw.remote], NoErr)
    ELSE Loaded(e, {"NoRemote"})

(* selectRemote returning the error of switchRemoteBranch *)
selectRemotePropagating(e) ==
    IF Len(e.Remotes) > 0
    THEN LET first == e.Remotes[1]
         IN  IF e.Branch = Nil
             THEN [entity |-> [e EXCEPT !.Remote = first], err |-> NoErr, panic |-> TRUE]
             ELSE LET sw == switchRemoteBranch(first, first.Name \o "/" \o e.Branch.Name)
                  IN  Loaded([e EXCEPT !.Remote = sw.remote, !.Remotes[1] = sw.remote],
                             sw.err)
    ELSE Loaded(e, {"NoRemote"})

(* the default remote and its remote-tracking branch, or the no-remote error *)
selectRemote(e) ==
    IF Len(e.Remotes) > 0
    THEN LET first == e.Remotes[1]
         IN  IF e.Branch = Nil
             THEN [entity |-> [e EXCEPT !.Remote = first], err |-> NoErr, panic |-> TRUE]
             ELSE LET sw == switchRemoteBranch(first, first.Name \o "/" \o e.Branch.Name)
                  \* entity.Remote and entity.Remotes[0] are one object
                  IN  Loaded([e EXCEPT !.Remote = sw.remote, !.Remotes[1] = sw.remote], NoErr)
    ELSE Loaded(e, {"NoRemote"})

(* InitializeRepository loading the remotes and the active branch before it
   looks at the commits *)
InitializeRepositoryLoadingAll(d, g) ==
    IF openDirectory(d) # NoErr THEN Loaded(Nil, openDirectory(d))
    ELSE
    LET m1 == loadRemotes(loadCommits(loadLocalBranches(Machine(NewEntity(d, g), d, g))))
    IN  IF Len(m1.entity.Commits) > 0
        THEN LET m2 == [m1 EXCEPT !.entity.Commit = m1.entity.Commits[1]]
                 m4 == [m2 EXCEPT !.entity.Branch = getActiveBranch(m2)]
             IN  selectRemote(m4.entity)
        ELSE Loaded(m1.entity, {"EmptyRepository"})

InitializeRepository(d, g) ==
    IF openDirectory(d) # NoErr THEN Loaded(Nil, openDirectory(d))
    ELSE
    LET m1 == loadCommits(loadLocalBranches(Machine(NewEntity(d, g), d, g)))
    IN  IF Len(m1.entity.Commits) > 0
        THEN LET m2 == [m1 EXCEPT !.entity.Commit = m1.entity.Commits[1]]
                 m3 == loadRemotes(m2)
                 m4 == [m3 EXCEPT !.entity.Branch = getActiveBranch(m3)]
             IN  selectRemote(m4.entity)
        ELSE Loaded(m1.entity, {"EmptyRepository"})

(* Refresh going on to the remotes after the commits failed to load *)
RefreshContinuing(m, rf) ==
    IF rf \in {"stat", "open"} THEN Done(m, "Refresh", "", RefreshError(rf))
    ELSE
    LET m2 == [m EXCEPT !.gen = @ + 1,
                        !.entity.Repository = [obj |-> m.gen + 1],
                        !.entity.ModTime = m.disk.mtime]
    IN  IF rf = "branches" THEN Done(m2, "Refresh", "", RefreshError(rf))
        ELSE LET m3 == loadLocalBranches(m2)
             IN  IF rf = "commits" THEN Done(loadRemotes(m3), "Refresh", "", RefreshError(rf))
                 ELSE LET m4 == loadCommits(m3)
                      IN  IF rf = "remotes" THEN Done(m4, "Refresh", "", RefreshError(rf))
                          ELSE Done(loadRemotes(m4), "Refresh", "", NoErr)

(* Refresh putting the commits it loads in front of the ones it had *)
RefreshPatchingCommits(m, rf) ==
    IF rf \in {"stat", "open"} THEN Done(m, "Refresh", "", RefreshError(rf))
    ELSE
    LET m2 == [m EXCEPT !.gen = @ + 1,
                        !.entity.Repository = [obj |-> m.gen + 1],
                        !.entity.ModTime = m.disk.mtime]
    IN  IF rf = "branches" THEN Done(m2, "Refresh", "", RefreshError(rf))
        ELSE LET m3 == loadLocalBranches(m2)
             IN  IF rf = "commits" THEN Done(m3, "Refresh", "", RefreshError(rf))
                 ELSE LET m4 == [m3 EXCEPT !.entity.Commits = loadCommits(m3).entity.Commits \o @]
                      IN  IF rf = "remotes" THEN Done(m4, "Refresh", "", RefreshError(rf))
                          ELSE Done(loadRemotes(m4), "Refresh", "", NoErr)

Refresh(m, rf) ==
    IF rf \in {"stat", "open"} THEN Done(m, "Refresh", "", RefreshError(rf))
    ELSE
    LET m2 == [m EXCEPT !.gen = @ + 1,
                        !.entity.Repository = [obj |-> m.gen + 1],
                        !.entity.ModTime = m.disk.mtime]
    IN  IF rf = "branches" THEN Done(m2, "Refresh", "", RefreshError(rf))
        ELSE LET m3 == loadLocalBranches(m2)
             IN  IF rf = "commits" THEN Done(m3, "Refresh", "", RefreshError(rf))
                 ELSE LET m4 == loadCommits(m3)
                      IN  IF rf = "remotes" THEN Done(m4, "Refresh", "", RefreshError(rf))
                          ELSE Done(loadRemotes(m4), "Refresh", "", NoErr)

(* Pull going on to the merge after a failed fetch *)
PullIgnoringFetchError(m, o) ==
    IF m.entity.Remote = Nil THEN Panicked(m)
    ELSE
    LET rm == m.entity.Remote.Name
        f == FetchWithGit(m, rm, o.fetch)
        c1 == Checkout(f.m, f.m.entity.Branch, o.co1)
    IN  IF c1.m.entity.Remote.Branch = Nil THEN Panicked(c1.m)
        ELSE
        LET mg == MergeWithGit(c1.m, c1.m.entity.Remote.Branch.Name, o.merge)
        IN  IF mg.err # NoErr
            THEN Return(Refresh(mg.m, o.refresh).m, mg.err)
            ELSE LET r == Refresh(mg.m, o.refresh)
                     c2 == Checkout(r.m, r.m.entity.Branch, o.co2)
                 IN  Return(c2.m, NoErr)

(* Pull without the Refresh of the success path *)
PullWithoutRefresh(m, o) ==
    IF m.entity.Remote = Nil THEN Panicked(m)
    ELSE
    LET rm == m.entity.Remote.Name
        f == FetchWithGit(m, rm, o.fetch)
    IN  IF f.err # NoErr THEN Return(f.m, f.err)
        ELSE
        LET c1 == Checkout(f.m, f.m.entity.Branch, o.co1)
        IN  IF c1.m.entity.Remote.Branch = Nil THEN Panicked(c1.m)
            ELSE
            LET mg == MergeWithGit(c1.m, c1.m.entity.Remote.Branch.Name, o.merge)
            IN  IF mg.err # NoErr
                THEN Return(Refresh(mg.m, o.refresh).m, mg.err)
                ELSE LET c2 == Checkout(mg.m, mg.m.entity.Branch, o.co2)
                     IN  Return(c2.m, NoErr)

Pull(m, o) ==
    IF m.entity.Remote = Nil THEN Panicked(m)
    ELSE
    LET rm == m.entity.Remote.Name
        f == FetchWithGit(m, rm, o.fetch)
    IN  IF f.err # NoErr THEN Return(f.m, f.err)
        ELSE
        LET c1 == Checkout(f.m, f.m.entity.Branch, o.co1)
        IN  IF c1.m.entity.Remote.Branch = Nil THEN Panicked(c1.m)
            ELSE
            LET mg == MergeWithGit(c1.m, c1.m.entity.Remote.Branch.Name, o.merge)
            IN  IF mg.err # NoErr
                THEN Return(Refresh(mg.m, o.refresh).m, mg.err)
                ELSE LET r == Refresh(mg.m, o.refresh)
                         c2 == Checkout(r.m, r.m.entity.Branch, o.co2)
                     IN  Return(c2.m, NoErr)

(* Fetch checking the branch out before the Refresh *)
FetchCheckingOutFirst(m, o) ==
    IF m.entity.Remote = Nil THEN Panicked(m)
    ELSE
    LET rm == m.entity.Remote.Name
        f == FetchWithGit(m, rm, o.fetch)
    IN  IF f.err # NoErr THEN Return(f.m, f.err)
        ELSE LET c == Checkout(f.m, f.m.entity.Branch, o.co2)
                 r == Refresh(c.m, o.refresh)
             IN  Return(r.m, NoErr)

(* Fetch refreshing the entity before it returns the fetch error *)
FetchRefreshingOnFailure(m, o) ==
    IF m.entity.Remote = Nil THEN Panicked(m)
    ELSE
    LET rm == m.entity.Remote.Name
        f == FetchWithGit(m, rm, o.fetch)
    IN  IF f.err # NoErr THEN Return(Refresh(f.m, o.refresh).m, f.err)
        ELSE LET r == Refresh(f.m, o.refresh)
                 c == Checkout(r.m, r.m.entity.Branch, o.co2)
             IN  Return(c.m, NoErr)

Fetch(m, o) ==
    IF m.entity.Remote = Nil THEN Panicked(m)
    ELSE
    LET rm == m.entity.Remote.Name
        f == FetchWithGit(m, rm, o.fetch)
    IN  IF f.err # NoErr THEN Return(f.m, f.err)
        ELSE LET r == Refresh(f.m, o.refresh)
                 c == Checkout(r.m, r.m.entity.Branch, o.co2)
             IN  Return(c.m, NoErr)

(* Merge marking the entity failed when the merge fails *)
MergeMarkingFail(m, o) ==
    LET c == Checkout(m, m.entity.Branch, o.co1)
    IN  IF c.m.entity.Remote = Nil \/ c.m.entity.Remote.Branch = Nil THEN Panicked(c.m)
        ELSE
        LET mg == MergeWithGit(c.m, c.m.entity.Remote.Branch.Name, o.merge)
        IN  IF mg.err # NoErr
            THEN Return([Refresh(mg.m, o.refresh).m EXCEPT !.entity.State = Fail], mg.err)
            ELSE Return(Refresh(mg.m, o.refresh).m, NoErr)

(* Merge returning the merge error without a Refresh *)
MergeWithoutRefreshOnFailure(m, o) ==
    LET c == Checkout(m, m.entity.Branch, o.co1)
    IN  IF c.m.entity.Remote = Nil \/ c.m.entity.Remote.Branch = Nil THEN Panicked(c.m)
        ELSE
        LET mg == MergeWithGit(c.m, c.m.entity.Remote.Branch.Name, o.merge)
        IN  IF mg.err # NoErr
            THEN Return(mg.m, mg.err)
            ELSE Return(Refresh(mg.m, o.refresh).m, NoErr)

Merge(m, o) ==
    LET c == Checkout(m, m.entity.Branch, o.co1)
    IN  IF c.m.entity.Remote = Nil \/ c.m.entity.Remote.Branch = Nil THEN Panicked(c.m)
        ELSE
        LET mg == MergeWithGit(c.m, c.m.entity.Remote.Branch.Name, o.merge)
        IN  IF mg.err # NoErr
            THEN Return(Refresh(mg.m, o.refresh).m, mg.err)
            ELSE Return(Refresh(mg.m, o.refresh).m, NoErr)

(* the remote-level fetch followed by Merge(), what Pull is shorthand for *)
FetchThenMerge(m, o) ==
    IF m.entity.Remote = Nil THEN Panicked(m)
    ELSE LET f == FetchWithGit(m, m.entity.Remote.Name, o.fetch)
         IN  IF f.err # NoErr THEN Return(f.m, f.err) ELSE Merge(f.m, o)

-----------------------------------------------------------------------------
(* The state machine *)

FetchOutcomes == {"ok", "new", "fail"}
MergeOutcomes == {"ok", "fail", "failTouched"}
CheckoutOutcomes == {"ok", "fail"}

Outcome(fo, c1, mo, rf, c2) ==
    [fetch |-> fo, co1 |-> c1, merge |-> mo, refresh |-> rf, co2 |-> c2]

Init ==
    /\ disk \in Disks
    /\ entity = Nil
    /\ gen = 0
    /\ pc = "start"
    /\ op = "none"
    /\ err = NoErr
    /\ trace = <<>>
    /\ pre = Nil
    /\ alt = Nil
    /\ again = FALSE
    /\ jobs = <<>>

Current == Machine(entity, disk, gen)

(* the caller's view after a call on the entity returned (or panicked) *)
Returned(name, r, other) ==
    /\ entity' = r.m.entity
    /\ disk' = r.m.disk
    /\ gen' = r.m.gen
    /\ trace' = r.m.trace
    /\ err' = r.err
    /\ pc' = IF r.panic THEN "crashed" ELSE "ready"
    /\ op' = name
    /\ pre' = entity
    /\ alt' = other
    /\ again' = (name = "Refresh" /\ op = "Refresh" /\ pc = "ready" /\ err = NoErr)

Load ==
    /\ pc = "start"
    /\ LET r == InitializeRepository(disk, 1)
       IN  /\ entity' = r.entity
           /\ err' = r.err
           /\ pc' = IF r.panic THEN "crashed"
                    ELSE IF r.entity = Nil THEN "noentity" ELSE "ready"
    /\ gen' = 1
    /\ op' = "InitializeRepository"
    /\ UNCHANGED <<disk, trace, pre, alt, again, jobs>>

CallFetch ==
    /\ pc = "ready"
    /\ gen < MaxGen
    /\ \/ \E r \in {Fetch(Current, Outcome("fail", "ok", "ok", "ok", "ok"))} :
             Returned("Fetch", r, Nil)
       \/ \E fo \in FetchOutcomes \ {"fail"}, rf \in RefreshOutcomes,
             co \in CheckoutOutcomes :
             \E r \in {Fetch(Current, Outcome(fo, "ok", "ok", rf, co))} :
                Returned("Fetch", r, Nil)

CallMerge ==
    /\ pc = "ready"
    /\ gen < MaxGen
    /\ \E co \in CheckoutOutcomes, mo \in MergeOutcomes, rf \in RefreshOutcomes :
          \E r \in {Merge(Current, Outcome("ok", co, mo, rf, "ok"))} :
             Returned("Merge", r, Nil)

Alternative(a) == [entity |-> a.m.entity, disk |-> a.m.disk, err |-> a.err, panic |-> a.panic]

CallPull ==
    /\ pc = "ready"
    /\ gen < MaxGen
    /\ \/ \E o \in {Outcome("fail", "ok", "ok", "ok", "ok")} :
             \E r \in {Pull(Current, o)}, a \in {FetchThenMerge(Current, o)} :
                Returned("Pull", r, Alternative(a))
       \/ \E fo \in FetchOutcomes \ {"fail"}, c1 \in CheckoutOutcomes,
             mo \in MergeOutcomes \ {"ok"}, rf \in RefreshOutcomes :
             \E o \in {Outcome(fo, c1, mo, rf, "ok")} :
                \E r \in {Pull(Current, o)}, a \in {FetchThenMerge(Current, o)} :
                   Returned("Pull", r, Alternative(a))
       \/ \E fo \in FetchOutcomes \ {"fail"}, c1 \in CheckoutOutcomes,
             rf \in RefreshOutcomes, c2 \in CheckoutOutcomes :
             \E o \in {Outcome(fo, c1, "ok", rf, c2)} :
                \E r \in {Pull(Current, o)}, a \in {FetchThenMerge(Current, o)} :
                   Returned("Pull", r, Alternative(a))

CallRefresh ==
    /\ pc = "ready"
    /\ gen <= MaxGen
    /\ \E rf \in RefreshOutcomes :
          \E r \in {Refresh(Current, rf)} :
             Returned("Refresh", Return(r.m, r.err), Nil)

(* a call made by the caller itself, not by a job of the coordinator *)
Direct(A) == A /\ UNCHANGED jobs

Next ==
    \/ Load
    \/ Direct(CallFetch)
    \/ Direct(CallMerge)
    \/ Direct(CallPull)
    \/ Direct(CallRefresh)

Spec == Init /\ [][Next]_vars

-----------------------------------------------------------------------------
(* The batch coordinator: it alone writes State, and runs each operation
   inside a job *)

(* a step of the coordinator that leaves the entity as e *)
Coordinated(name, e) ==
    /\ entity' = e
    /\ op' = name
    /\ err' = NoErr
    /\ trace' = <<>>
    /\ pre' = entity
    /\ alt' = Nil
    /\ again' = FALSE
    /\ UNCHANGED <<disk, gen, pc>>

Without(s, i) == [j \in 1..(Len(s) - 1) |-> IF j < i THEN s[j] ELSE s[j + 1]]

(* Enqueue that takes an entity of the last run without a reset *)
EnqueueFinished ==
    /\ pc = "ready"
    /\ entity.State \in {Available, Success, Fail}
    /\ Coordinated("Enqueue", [entity EXCEPT !.State = Queued])
    /\ UNCHANGED jobs

(* the dispatch decision of a batch run: Available -> Queued *)
Enqueue ==
    /\ pc = "ready"
    /\ entity.State = Available
    /\ Coordinated("Enqueue", [entity EXCEPT !.State = Queued])
    /\ UNCHANGED jobs

(* Start that does not refuse an entity that is already Working *)
StartWorking ==
    /\ pc = "ready"
    /\ entity.State \in {Queued, Working}
    /\ Coordinated("Start", [entity EXCEPT !.State = Working])
    /\ jobs' = Append(jobs, "started")

(* the start of the entity's operation: Queued -> Working *)
Start ==
    /\ pc = "ready"
    /\ entity.State = Queued
    /\ Coordinated("Start", [entity EXCEPT !.State = Working])
    /\ jobs' = Append(jobs, "started")

(* a started job calls its operation and keeps what it returned *)
RunJob ==
    \E i \in 1..Len(jobs) :
        /\ jobs[i] = "started"
        /\ CallFetch \/ CallMerge \/ CallPull
        /\ jobs' = [jobs EXCEPT ![i] = IF err' = NoErr THEN "ok" ELSE "failed"]

(* the returned value moves the entity: Working -> Success or Fail *)
Finish ==
    /\ pc = "ready"
    /\ \E i \in 1..Len(jobs) :
          /\ jobs[i] \in {"ok", "failed"}
          /\ Coordinated("Finish",
                 [entity EXCEPT !.State = IF jobs[i] = "ok" THEN Success ELSE Fail])
          /\ jobs' = Without(jobs, i)

(* the reset before the next batch run: Success or Fail -> Available *)
Reset ==
    /\ pc = "ready"
    /\ entity.State \in {Success, Fail}
    /\ Coordinated("Reset", [entity EXCEPT !.State = Available])
    /\ UNCHANGED jobs

NextBatch ==
    \/ Load
    \/ Enqueue
    \/ Start
    \/ RunJob
    \/ Finish
    \/ Reset
    \/ Direct(CallRefresh)

SpecBatch == Init /\ [][NextBatch]_vars

-----------------------------------------------------------------------------
(* Properties *)

Ops == {"Fetch", "Merge", "Pull"}

Calls(name) == {i \in 1..Len(trace) : trace[i].call = name}

FailedCalls(name) == {i \in Calls(name) : trace[i].err # NoErr}

(* the last call was name and it returned to its caller *)
ReturnedFrom(name) == op = name /\ pc = "ready"

(* C1: every call of Fetch, Merge or Pull that returns has performed a
   Refresh, on every path, the failing ones included *)
C1_RefreshOnEveryPath ==
    \A name \in Ops : ReturnedFrom(name) => Calls("Refresh") # {}

(* C2: when the adapter fetch fails inside Fetch(), Fetch returns that error,
   every field of the entity is as before the call, and neither Refresh nor
   Checkout was called *)
C2_FetchFailureLeavesEntity ==
    (ReturnedFrom("Fetch") /\ FailedCalls("FetchWithGit") # {}) =>
        /\ err = {"FetchFailed"}
        /\ entity = pre
        /\ Calls("Refresh") = {}
        /\ Calls("Checkout") = {}

C2_Witness ==
    /\ ReturnedFrom("Fetch")
    /\ FailedCalls("FetchWithGit") # {}
    /\ pre.Remote.Branch # Nil

(* C3: when the fetch step of Pull() fails, Pull returns the fetch error at
   once: the adapter fetch is the only call made (no checkout, no merge) and
   every field of the entity is as before the call *)
C3_PullFetchFailureReturns ==
    (ReturnedFrom("Pull") /\ FailedCalls("FetchWithGit") # {}) =>
        /\ err = {"FetchFailed"}
        /\ trace = <<Call("FetchWithGit", pre.Remote.Name, {"FetchFailed"})>>
        /\ entity = pre

C3_Witness ==
    /\ ReturnedFrom("Pull")
    /\ FailedCalls("FetchWithGit") # {}
    /\ pre.Remote.Branch # Nil

(* C4: when the adapter merge fails, in Merge() and in Pull() after a
   successful fetch, Refresh is called exactly once, after the failed merge,
   the merge error is what the caller gets, and nothing (no checkout) is
   called after that Refresh *)
C4_MergeFailureRefreshesOnce ==
    \A name \in {"Merge", "Pull"} :
        (ReturnedFrom(name) /\ FailedCalls("MergeWithGit") # {}) =>
            /\ err = {"MergeFailed"}
            /\ Cardinality(Calls("Refresh")) = 1
            /\ trace[Len(trace)].call = "Refresh"
            /\ trace[Len(trace) - 1].call = "MergeWithGit"

C4_Witness ==
    /\ ReturnedFrom("Pull")
    /\ FailedCalls("MergeWithGit") # {}
    /\ entity.ModTime # pre.ModTime

(* C5: a failure of the Refresh inside Fetch, Merge or Pull is part of the
   error the caller gets *)
C5_RefreshErrorSurfaced ==
    \A name \in Ops :
        ReturnedFrom(name) => \A i \in FailedCalls("Refresh") : trace[i].err \subseteq err

(* C6: loading a valid repository without commits gives an entity and an
   error; Commits is empty, Commit unset, State Available, and neither the
   remotes nor the selections were loaded *)
C6_EmptyRepository ==
    (op = "InitializeRepository" /\ disk.status = "repo" /\ disk.commits = 0) =>
        /\ entity # Nil
        /\ err # NoErr
        /\ entity.Commits = <<>>
        /\ entity.Commit = Nil
        /\ entity.State = Available
        /\ entity.Remotes = <<>>
        /\ entity.Branch = Nil
        /\ entity.Remote = Nil

C6_Witness ==
    /\ op = "InitializeRepository"
    /\ disk.status = "repo"
    /\ disk.commits = 0
    /\ Len(disk.remotes) > 0
    /\ pc = "ready"

C8_SelectionsAreMembers ==
    (op = "InitializeRepository" /\ pc = "ready" /\ err = NoErr) =>
        /\ entity.Branch \in RangeOf(entity.Branches)
        /\ entity.Remote \in RangeOf(entity.Remotes)
        /\ entity.Remote = entity.Remotes[1]

C8_Witness ==
    /\ op = "InitializeRepository"
    /\ pc = "ready"
    /\ err = NoErr
    /\ entity.Remote.Branch # Nil
    /\ Len(entity.Branches) > 1

TrackingNames(remote) == {remote.Branches[i].Name : i \in 1..Len(remote.Branches)}

(* the load found the first remote without a remote-tracking branch named
   after the active branch *)
TrackingBranchMissing ==
    /\ op = "InitializeRepository"
    /\ pc = "ready"
    /\ Len(entity.Remotes) > 0
    /\ entity.Branch # Nil
    /\ (entity.Remotes[1].Name \o "/" \o entity.Branch.Name)
          \notin TrackingNames(entity.Remotes[1])

(* C9: a first remote without the remote-tracking branch <remote>/<branch>
   is no error of the load: the error is nil, Remote is the first remote and
   Remote.Branch stays unset *)
C9_MissingTrackingBranchSwallowed ==
    TrackingBranchMissing =>
        /\ err = NoErr
        /\ entity.Remote = entity.Remotes[1]
        /\ entity.Remote.Branch = Nil

C9_Witness ==
    /\ TrackingBranchMissing
    /\ Len(entity.Remotes[1].Branches) > 0
    /\ Len(entity.Remotes) > 1

(* C10: a Pull whose fetch and merge both succeed leaves the entity and the
   repository on disk as the remote-level fetch followed by Merge() does *)
C10_PullIsFetchThenMerge ==
    (ReturnedFrom("Pull") /\ err = NoErr) =>
        /\ ~alt.panic
        /\ alt.err = NoErr
        /\ entity = alt.entity
        /\ disk = alt.disk

C10_Witness ==
    /\ ReturnedFrom("Pull")
    /\ err = NoErr
    /\ Len(entity.Commits) > Len(pre.Commits)
    /\ FailedCalls("Checkout") # {}

(* what a reader of the entity sees: the values, not the identity of the
   objects a load created *)
Shown(x) == IF x = Nil THEN Nil ELSE [f \in DOMAIN x \ {"obj"} |-> x[f]]

ShownAll(xs) == [i \in 1..Len(xs) |-> Shown(xs[i])]

ShownRemote(r) ==
    IF r = Nil THEN Nil
    ELSE [Name |-> r.Name, Branches |-> ShownAll(r.Branches), Branch |-> Shown(r.Branch)]

Observable(e) ==
    [ModTime |-> e.ModTime,
     Branches |-> ShownAll(e.Branches),
     Commits |-> ShownAll(e.Commits),
     Remotes |-> [i \in 1..Len(e.Remotes) |-> ShownRemote(e.Remotes[i])],
     Branch |-> Shown(e.Branch),
     Remote |-> ShownRemote(e.Remote),
     Commit |-> Shown(e.Commit),
     State |-> e.State]

(* C11: a Refresh that returns nil, called right after a Refresh that
   returned nil, leaves the observable state (ModTime, Branches, Commits,
   Remotes, Branch, Remote, Commit, State) as the first one left it *)
C11_RefreshIdempotent ==
    (again /\ ReturnedFrom("Refresh") /\ err = NoErr) =>
        Observable(entity) = Observable(pre)

C11_Witness ==
    /\ again
    /\ ReturnedFrom("Refresh")
    /\ err = NoErr
    /\ entity.Repository # pre.Repository
    /\ Len(entity.Commits) > 1
    /\ Len(entity.Remotes) > 1

(* the transitions of State the design allows into Working, Success, Fail
   and Queued *)
Legal(from, to) ==
    /\ to = Working => from = Queued
    /\ to \in {Success, Fail} => from = Working
    /\ to = Queued => from = Available

(* C12: State only moves along the legal transitions: into Working only
   from Queued, into Success or Fail only from Working, into Queued only
   from Available *)
C12_LegalTransitions ==
    (pre # Nil /\ entity.State # pre.State) => Legal(pre.State, entity.State)

C12_Witness ==
    /\ op = "Finish"
    /\ pre.State = Working
    /\ entity.State = Fail
    /\ Len(entity.Commits) > Len(entity.Branches)

(* C13: at most one operation is between its start and its return on the
   entity, that is exactly while the entity is Working, and Fetch, Merge and
   Pull run only there *)
C13_OneOperationAtATime ==
    /\ Len(jobs) <= 1
    /\ (pc = "ready" /\ entity # Nil) => (entity.State = Working <=> Len(jobs) = 1)
    /\ \A name \in Ops : op = name => (pre.State = Working /\ Len(jobs) = 1)

C13_Witness ==
    /\ ReturnedFrom("Pull")
    /\ jobs = <<"ok">>
    /\ entity.State = Working
    /\ Calls("MergeWithGit") # {}

(* C14: InitializeRepository gives no entity and an error for a path that
   cannot be opened or stat'ed or is no repository, and every entity it does
   give is Available *)
C14_LoadFailures ==
    op = "InitializeRepository" =>
        /\ disk.status # "repo" => (entity = Nil /\ err # NoErr /\ pc = "noentity")
        /\ entity # Nil => entity.State = Available

C14_Witness ==
    /\ op = "InitializeRepository"
    /\ disk.status = "nostat"
    /\ entity = Nil
    /\ err = {"PathUnreadable"}

(* the caller holds an entity that InitializeRepository returned with a nil
   error: only that path sets Remote, and nothing unsets it *)
LoadedWithoutError == pc = "ready" /\ entity # Nil /\ entity.Remote # Nil

(* C15: after a successful load and any calls of Fetch, Merge, Pull and
   Refresh, Branch is one of the current Branches and Remote one of the
   current Remotes *)
C15_SelectionsStayMembers ==
    LoadedWithoutError =>
        /\ entity.Branch \in RangeOf(entity.Branches)
        /\ entity.Remote \in RangeOf(entity.Remotes)

(* C16: after a successful load and any calls of Fetch, Merge, Pull and
   Refresh, Commit is the first of the current Commits when there are any
   (the same commit, whichever load created the object) *)
C16_CommitIsHead ==
    (LoadedWithoutError /\ entity.Commits # <<>>) =>
        Shown(entity.Commit) = Shown(entity.Commits[1])

Steps == [i \in 1..Len(trace) |-> <<trace[i].call, trace[i].arg>>]

(* C17: an operation that returns nil has made exactly these calls, in this
   order: Fetch = fetch, Refresh, checkout; Merge = checkout, merge, Refresh;
   Pull = fetch, checkout, merge, Refresh, checkout; with the remote, the
   branch and the remote branch that were selected when it started *)
C17_SuccessPathOrder ==
    /\ (ReturnedFrom("Fetch") /\ err = NoErr) =>
          Steps = << <<"FetchWithGit", pre.Remote.Name>>,
                     <<"Refresh", "">>,
                     <<"Checkout", pre.Branch.Name>> >>
    /\ (ReturnedFrom("Merge") /\ err = NoErr) =>
          Steps = << <<"Checkout", pre.Branch.Name>>,
                     <<"MergeWithGit", pre.Remote.Branch.Name>>,
                     <<"Refresh", "">> >>
    /\ (ReturnedFrom("Pull") /\ err = NoErr) =>
          Steps = << <<"FetchWithGit", pre.Remote.Name>>,
                     <<"Checkout", pre.Branch.Name>>,
                     <<"MergeWithGit", pre.Remote.Branch.Name>>,
                     <<"Refresh", "">>,
                     <<"Checkout", pre.Branch.Name>> >>

C17_Witness ==
    /\ ReturnedFrom("Pull")
    /\ err = NoErr
    /\ pre.Branch.Name = "dev"
    /\ Len(entity.Commits) > Len(pre.Commits)

(* what the load steps give for the repository as it is now *)
FreshBranches == loadLocalBranches(Current).entity.Branches
FreshCommits == loadCommits(Current).entity.Commits

(* the entity with the five fields Refresh writes taken from e *)
RefreshedFieldsFrom(e) ==
    [entity EXCEPT !.Repository = e.Repository, !.ModTime = e.ModTime,
                   !.Branches = e.Branches, !.Commits = e.Commits,
                   !.Remotes = e.Remotes]

HandleReplaced ==
    /\ entity.Repository = [obj |-> gen]
    /\ entity.Repository # pre.Repository
    /\ entity.ModTime = disk.mtime

(* C18: Refresh stops at its first failing step and rolls nothing back: a
   failed stat or open changes no field; a failed load step comes after the
   handle and ModTime were replaced, keeps what the load steps before it
   (branches, then commits, then remotes) stored, leaves the fields of the
   steps after it alone, and its error is what Refresh returns *)
C18_RefreshFailsFast ==
    (ReturnedFrom("Refresh") /\ err # NoErr) =>
        /\ trace = <<Call("Refresh", "", err)>>
        /\ RefreshedFieldsFrom(pre) = pre
        /\ err \in {{"StatFailed"}, {"OpenFailed"}} => entity = pre
        /\ err = {"LoadBranchesFailed"} =>
              /\ HandleReplaced
              /\ entity.Commits = pre.Commits
              /\ entity.Remotes = pre.Remotes
        /\ err = {"LoadCommitsFailed"} =>
              /\ HandleReplaced
              /\ entity.Branches = FreshBranches
              /\ entity.Remotes = pre.Remotes
        /\ err = {"LoadRemotesFailed"} =>
              /\ HandleReplaced
              /\ entity.Branches = FreshBranches
              /\ entity.Commits = FreshCommits
        /\ err \in {{"StatFailed"}, {"OpenFailed"}, {"LoadBranchesFailed"},
                    {"LoadCommitsFailed"}, {"LoadRemotesFailed"}}

C18_Witness ==
    /\ ReturnedFrom("Refresh")
    /\ err = {"LoadCommitsFailed"}
    /\ entity.Branches # pre.Branches
    /\ Len(pre.Remotes) > 0
    /\ Len(entity.Commits) < disk.commits

(* C19: Fetch, Merge, Pull and Refresh leave State, RepoID, Name and AbsPath
   as they were when the call started, whether or not they return an error *)
C19_IdentityAndStateKept ==
    \A name \in Ops \cup {"Refresh"} :
        ReturnedFrom(name) =>
            /\ entity.State = pre.State
            /\ entity.RepoID = pre.RepoID
            /\ entity.Name = pre.Name
            /\ entity.AbsPath = pre.AbsPath

C19_Witness ==
    /\ ReturnedFrom("Merge")
    /\ err = {"MergeFailed"}
    /\ entity.State = Working
    /\ entity.ModTime # pre.ModTime

(* C20: an entity loaded with a nil error has Branch, Remote and
   Remote.Branch set, so Merge and Pull on it get to the adapter merge
   instead of dereferencing nil *)
C20_SelectionsSet ==
    /\ (op = "InitializeRepository" /\ pc = "ready" /\ err = NoErr) =>
          /\ entity.Branch # Nil
          /\ entity.Remote # Nil
          /\ entity.Remote.Branch # Nil
    /\ (op \in {"Merge", "Pull"} /\ pre.Remote # Nil
          /\ FailedCalls("FetchWithGit") = {}) => pc = "ready"

====
